---- MODULE Spec2Model ----
(***************************************************************************)
(* Model of rfxcom/protocol/base.py: BasePacket, BasePacketHandler and     *)
(* Packet.  One decoder instance is constructed and then called with       *)
(* frames.  Every method is an operator that computes what the Python      *)
(* code computes, an exception included, and every call is one action.     *)
(***************************************************************************)
EXTENDS Integers, Sequences, FiniteSets, TLC

(* ------------------------------ bounds --------------------------------- *)

\* Largest byte value a frame holds (a real byte goes up to 255).
MaxByte == 3
\* Longest frame handed to a decoder.
MaxLen == 4
\* Number of load calls made on the instance.
MaxLoads == 2
\* Largest byte value in the frames passed to load; neither load nor a
\* parse under it branches on the value of a byte.
MaxLoadByte == 1

Byte == 0..MaxByte

RECURSIVE SeqsOfLen(_, _)
SeqsOfLen(n, bytes) ==
    IF n = 0 THEN {<<>>}
    ELSE {Append(s, b) : s \in SeqsOfLen(n - 1, bytes), b \in bytes}

\* The bytearrays a caller can pass, the empty one included.
Frames == UNION {SeqsOfLen(n, Byte) : n \in 0..MaxLen}

\* The bytearrays passed to load.
LoadFrames == UNION {SeqsOfLen(n, 0..MaxLoadByte) : n \in 0..MaxLen}

(* ------------------------ python primitives ---------------------------- *)

\* The value of a python None.
None == "None"

\* The value slot of a call that raised.
NoValue == "NoValue"

\* A call that returned v.
Return(v) == [exc |-> "", args |-> <<>>, val |-> v]

\* A call that raised exception e with message arguments a.
Raise(e, a) == [exc |-> e, args |-> a, val |-> NoValue]

\* data[i] of a bytearray is legal exactly for 0 <= i < len(data).
InRange(data, i) == i >= 0 /\ i < Len(data)

\* data[i], python indices start at 0.
At(data, i) == data[i + 1]

\* dict.get(key): the value, or None when the key is missing.
Get(table, key) == IF key \in DOMAIN table THEN table[key] ELSE None

\* Truth value of a dict: false exactly when it is empty.
Truthy(table) == DOMAIN table # {}

\* An instance with attribute name set to value.
SetAttr(obj, name, value) ==
    [a \in DOMAIN obj \cup {name} |-> IF a = name THEN value ELSE obj[a]]

(* --------------------------- exceptions -------------------------------- *)

\* The exception classes caught by "except RFXComException".
RFXComException ==
    {"RFXComException", "InvalidPacketLength", "MalformedPacket",
     "UnknownPacketType", "UnknownPacketSubtype"}

(* ------------------------- decoder tables ------------------------------ *)

EmptyTable == [c \in {} |-> None]

\* The type table a handler subclass installs.
TYPES == [c \in {1, 2} |-> IF c = 1 THEN "Temperature sensors"
                          ELSE "Humidity sensors"]

\* The subtype table a handler subclass installs.
SUBTYPES == [c \in {1, 2} |-> IF c = 1 THEN "THR128" ELSE "THC238"]

\* A subclass installs a table or leaves the empty one of BasePacket.
TypeTables == {EmptyTable, TYPES}

SubtypeTables == {EmptyTable, SUBTYPES}

Classes == {"BasePacketHandler", "Packet"}

\* BasePacket.__init__: both tables start empty.
BasePacket_init == [PACKET_TYPES |-> EmptyTable, PACKET_SUBTYPES |-> EmptyTable]

(* ----------------------------- methods --------------------------------- *)

\* parse_header_part resolving the type name with the subtype code.
parse_header_part_subtype_key(self, data) ==
    IF ~InRange(data, 0) \/ ~InRange(data, 1)
       \/ ~InRange(data, 2) \/ ~InRange(data, 3)
    THEN Raise("IndexError", <<>>)
    ELSE Return([packet_length |-> At(data, 0),
                 packet_type |-> At(data, 1),
                 packet_type_name |-> Get(self.PACKET_TYPES, At(data, 2)),
                 packet_subtype |-> At(data, 2),
                 packet_subtype_name |->
                     Get(self.PACKET_SUBTYPES, At(data, 2)),
                 sequence_number |-> At(data, 3)])

\* BasePacket.parse_header_part
parse_header_part(self, data) ==
    IF ~InRange(data, 0) \/ ~InRange(data, 1)
       \/ ~InRange(data, 2) \/ ~InRange(data, 3)
    THEN Raise("IndexError", <<>>)
    ELSE LET packet_length == At(data, 0)
             packet_type == At(data, 1)
             packet_subtype == At(data, 2)
             sequence_number == At(data, 3)
         IN Return([packet_length |-> packet_length,
                    packet_type |-> packet_type,
                    packet_type_name |-> Get(self.PACKET_TYPES, packet_type),
                    packet_subtype |-> packet_subtype,
                    packet_subtype_name |->
                        Get(self.PACKET_SUBTYPES, packet_subtype),
                    sequence_number |-> sequence_number])

\* The checks of validate_packet after the first byte was read, with the
\* variations a slip in the code would make: off, the amount added to the
\* length byte; min, the minimum length; nested, the subtype check made only
\* under a non-empty type table; subFirst, the subtype checked before the
\* type; typeIn, the table the type byte is looked up in.
validate_variant(self, data, off, min, nested, subFirst, typeIn) ==
    IF ~InRange(data, 0) THEN Raise("IndexError", <<>>)
    ELSE
    LET expected_length == At(data, 0) + off
        typeBad == Truthy(typeIn) /\ At(data, 1) \notin DOMAIN typeIn
        subBad == /\ Truthy(self.PACKET_SUBTYPES)
                  /\ At(data, 2) \notin DOMAIN self.PACKET_SUBTYPES
                  /\ (nested => Truthy(self.PACKET_TYPES))
    IN
    IF Len(data) # expected_length
    THEN Raise("InvalidPacketLength", <<expected_length, Len(data)>>)
    ELSE IF expected_length < min
    THEN Raise("MalformedPacket", <<Len(data)>>)
    ELSE IF ~InRange(data, 1) \/ ~InRange(data, 2)
    THEN Raise("IndexError", <<>>)
    ELSE IF subFirst /\ subBad
    THEN Raise("UnknownPacketSubtype", <<At(data, 2)>>)
    ELSE IF typeBad THEN Raise("UnknownPacketType", <<At(data, 1)>>)
    ELSE IF subBad THEN Raise("UnknownPacketSubtype", <<At(data, 2)>>)
    ELSE Return(TRUE)

\* validate_packet skipping the subtype check when the type table is empty.
validate_packet_nested(self, data) ==
    validate_variant(self, data, 1, 4, TRUE, FALSE, self.PACKET_TYPES)

\* validate_packet comparing the length with the length byte itself.
validate_packet_no_plus_one(self, data) ==
    validate_variant(self, data, 0, 4, FALSE, FALSE, self.PACKET_TYPES)

\* validate_packet asking for three bytes only.
validate_packet_min_three(self, data) ==
    validate_variant(self, data, 1, 3, FALSE, FALSE, self.PACKET_TYPES)

\* validate_packet checking the subtype before the type.
validate_packet_subtype_first(self, data) ==
    validate_variant(self, data, 1, 4, FALSE, TRUE, self.PACKET_TYPES)

\* validate_packet looking the type byte up in the subtype table.
validate_packet_wrong_table(self, data) ==
    validate_variant(self, data, 1, 4, FALSE, FALSE, self.PACKET_SUBTYPES)

\* BasePacketHandler.validate_packet
validate_packet(self, data) ==
    IF ~InRange(data, 0) THEN Raise("IndexError", <<>>)
    ELSE
    LET expected_length == At(data, 0) + 1 IN
    IF Len(data) # expected_length
    THEN Raise("InvalidPacketLength", <<expected_length, Len(data)>>)
    ELSE IF expected_length < 4
    THEN Raise("MalformedPacket", <<Len(data)>>)
    ELSE IF ~InRange(data, 1) THEN Raise("IndexError", <<>>)
    ELSE
    LET packet_type == At(data, 1) IN
    IF Truthy(self.PACKET_TYPES) /\ packet_type \notin DOMAIN self.PACKET_TYPES
    THEN Raise("UnknownPacketType", <<packet_type>>)
    ELSE IF ~InRange(data, 2) THEN Raise("IndexError", <<>>)
    ELSE
    LET sub_type == At(data, 2) IN
    IF Truthy(self.PACKET_SUBTYPES)
       /\ sub_type \notin DOMAIN self.PACKET_SUBTYPES
    THEN Raise("UnknownPacketSubtype", <<sub_type>>)
    ELSE Return(TRUE)

\* can_handle with a bare "except:".
BasePacketHandler_can_handle_bare_except(self, data) ==
    LET r == validate_packet(self, data) IN
    IF r.exc = "" THEN r ELSE Return(FALSE)

\* BasePacketHandler.can_handle
BasePacketHandler_can_handle(self, data) ==
    LET r == validate_packet(self, data) IN
    IF r.exc = "" THEN r
    ELSE IF r.exc \in RFXComException THEN Return(FALSE)
    ELSE r

\* Packet.can_handle
Packet_can_handle(self, data) == Return(TRUE)

\* BasePacket.parse, the stub a subclass must replace
BasePacket_parse(self, data) == Raise("NotImplementedError", <<>>)

\* Packet.parse
Packet_parse(self, data) ==
    IF ~InRange(data, 0) \/ ~InRange(data, 1) \/ ~InRange(data, 2)
    THEN Raise("IndexError", <<>>)
    ELSE LET packet_length == At(data, 0)
             packet_type == At(data, 1)
             sub_type == At(data, 2)
         IN Return([packet_length |-> packet_length,
                    packet_type |-> packet_type,
                    packet_subtype |-> sub_type,
                    packet |-> data])

\* Method resolution of can_handle on an instance of class c.
can_handle(c, self, data) ==
    IF c = "Packet" THEN Packet_can_handle(self, data)
    ELSE BasePacketHandler_can_handle(self, data)

\* Method resolution of parse on an instance of class c.
parse(c, self, data) ==
    IF c = "Packet" THEN Packet_parse(self, data)
    ELSE BasePacket_parse(self, data)

\* load keeping the raw frame of the first call.
load_keeps_first_raw(c, self, data, now) ==
    LET s1 == SetAttr(self, "loaded_at", now)
        s2 == IF "raw" \in DOMAIN self THEN s1 ELSE SetAttr(s1, "raw", data)
        r == IF c = "Packet" THEN Packet_parse(s2, data)
             ELSE BasePacket_parse(s2, data)
    IN IF r.exc # "" THEN [self |-> s2, out |-> r]
       ELSE LET s3 == SetAttr(s2, "data", r.val)
            IN [self |-> s3, out |-> Return(s3.data)]

\* BasePacket.load: the instance after the call and the call's outcome.
load(c, self, data, now) ==
    LET s1 == SetAttr(self, "loaded_at", now)
        s2 == SetAttr(s1, "raw", data)
        r == parse(c, s2, data)
    IN IF r.exc # "" THEN [self |-> s2, out |-> r]
       ELSE LET s3 == SetAttr(s2, "data", r.val)
            IN [self |-> s3, out |-> Return(s3.data)]

(* ------------------------------ state ---------------------------------- *)

VARIABLES
    cls,      \* class of the decoder instance
    self,     \* the instance's attributes
    clock,    \* what datetime.utcnow() returns next
    op,       \* the method called last
    arg,      \* the frame it was called with
    exc,      \* the exception it raised, "" when it returned
    excArgs,  \* the numbers in the exception's message
    ret       \* the value it returned

vars == <<cls, self, clock, op, arg, exc, excArgs, ret>>

\* The instance after __init__ (of a subclass, when it installs tables).
Constructed ==
    /\ cls \in Classes
    /\ \E t \in TypeTables, s \in SubtypeTables :
          self = IF cls = "Packet" THEN BasePacket_init
                 ELSE [BasePacket_init EXCEPT !.PACKET_TYPES = t,
                                              !.PACKET_SUBTYPES = s]
    /\ clock = 0
    /\ op = "__init__"
    /\ exc = ""
    /\ excArgs = <<>>
    /\ ret = None

Init ==
    /\ Constructed
    /\ arg = <<>>

\* The outcome of a call that leaves the instance alone.
Called(name, r) ==
    /\ op' = name
    /\ exc' = r.exc
    /\ excArgs' = r.args
    /\ ret' = r.val
    /\ UNCHANGED <<cls, self, clock, arg>>

ValidatePacket ==
    /\ cls = "BasePacketHandler"
    /\ Called("validate_packet", validate_packet(self, arg))

CanHandle == Called("can_handle", can_handle(cls, self, arg))

ParseHeaderPart == Called("parse_header_part", parse_header_part(self, arg))

Parse == Called("parse", parse(cls, self, arg))

Load ==
    \E data \in LoadFrames :
        /\ clock < MaxLoads
        /\ LET l == load(cls, self, data, clock) IN
              /\ self' = l.self
              /\ exc' = l.out.exc
              /\ excArgs' = l.out.args
              /\ ret' = l.out.val
        /\ op' = "load"
        /\ arg' = data
        /\ clock' = clock + 1
        /\ UNCHANGED cls

\* Sequences of load calls on one instance.
Next == Load

Spec == Init /\ [][Next]_vars

\* A constructed instance and the frame the calls below are made with.
InitCalls ==
    /\ Constructed
    /\ arg \in Frames

\* Calls, on one frame, of the methods that leave the instance alone.
NextCalls == ValidatePacket \/ CanHandle \/ ParseHeaderPart \/ Parse

SpecCalls == InitCalls /\ [][NextCalls]_vars

(* ----------------------------- properties ------------------------------ *)

\* The four failures validate_packet raises on purpose.
Taxonomy ==
    {"InvalidPacketLength", "MalformedPacket",
     "UnknownPacketType", "UnknownPacketSubtype"}

\* len(f) == f[0] + 1, for a non-empty f.
LengthMatches(f) == Len(f) >= 1 /\ Len(f) = At(f, 0) + 1

\* f[1] is looked up in a non-empty type table and is not a key of it.
TypeMissing(f) ==
    /\ Len(f) >= 2
    /\ Truthy(self.PACKET_TYPES)
    /\ At(f, 1) \notin DOMAIN self.PACKET_TYPES

\* f[2] is looked up in a non-empty subtype table and is not a key of it.
SubtypeMissing(f) ==
    /\ Len(f) >= 3
    /\ Truthy(self.PACKET_SUBTYPES)
    /\ At(f, 2) \notin DOMAIN self.PACKET_SUBTYPES

\* The last call was method m of a BasePacketHandler.
HandlerCalled(m) == cls = "BasePacketHandler" /\ op = m

\* C1: a frame with len(f) = f[0] + 1 >= 4 is accepted (True, nothing
\* raised) when its type byte passes the type table (empty, or holding the
\* byte) and its subtype byte passes the subtype table; the tables are
\* checked independently: under an empty type table a subtype byte missing
\* from a non-empty subtype table is still rejected as UnknownPacketSubtype.
C1_ValidFrameAccepted ==
    (HandlerCalled("validate_packet") /\ LengthMatches(arg) /\ Len(arg) >= 4)
    => /\ (~TypeMissing(arg) /\ ~SubtypeMissing(arg))
              => (exc = "" /\ ret = TRUE)
       /\ (~Truthy(self.PACKET_TYPES) /\ SubtypeMissing(arg))
              => exc = "UnknownPacketSubtype"

\* C1 witness: a frame rejected for its subtype alone, the type table empty.
C1_Witness ==
    /\ HandlerCalled("validate_packet")
    /\ LengthMatches(arg) /\ Len(arg) >= 4
    /\ ~Truthy(self.PACKET_TYPES)
    /\ SubtypeMissing(arg)
    /\ exc = "UnknownPacketSubtype"

\* C2: a non-empty frame with len(f) # f[0] + 1 raises InvalidPacketLength
\* carrying expected = f[0] + 1 and actual = len(f), whatever its other
\* bytes and whatever the tables hold.
C2_LengthMismatchRaises ==
    (HandlerCalled("validate_packet") /\ Len(arg) >= 1 /\ ~LengthMatches(arg))
    => /\ exc = "InvalidPacketLength"
       /\ excArgs = <<At(arg, 0) + 1, Len(arg)>>

\* C2 witness: a length mismatch on a frame whose type and subtype bytes
\* are both missing from non-empty tables.
C2_Witness ==
    /\ HandlerCalled("validate_packet")
    /\ ~LengthMatches(arg)
    /\ TypeMissing(arg) /\ SubtypeMissing(arg)
    /\ exc = "InvalidPacketLength"
    /\ excArgs = <<At(arg, 0) + 1, Len(arg)>>

\* C3: a frame with f[0] + 1 < 4 that passed the length check (so its
\* actual length is f[0] + 1 < 4 too) raises MalformedPacket.
C3_ShortFrameMalformed ==
    (HandlerCalled("validate_packet") /\ LengthMatches(arg)
        /\ At(arg, 0) + 1 < 4)
    => exc = "MalformedPacket"

\* C3 witness: a three byte frame with a correct length byte is rejected.
C3_Witness ==
    /\ HandlerCalled("validate_packet")
    /\ LengthMatches(arg) /\ Len(arg) = 3
    /\ exc = "MalformedPacket"

\* C4 as stated: whenever f[1] is missing from the non-empty type table,
\* validate_packet raises UnknownPacketType and can_handle returns False.
C4_Original ==
    (cls = "BasePacketHandler" /\ TypeMissing(arg))
    => /\ op = "validate_packet" => exc = "UnknownPacketType"
       /\ op = "can_handle" => (exc = "" /\ ret = FALSE)

\* C4 amended: when f[1] is missing from the non-empty type table,
\* validate_packet raises UnknownPacketType provided len(f) = f[0] + 1 >= 4,
\* and otherwise InvalidPacketLength or MalformedPacket; can_handle
\* returns False in every one of these cases.
C4_TypeMissingRejected ==
    (cls = "BasePacketHandler" /\ TypeMissing(arg))
    => /\ op = "validate_packet" =>
            exc = IF ~LengthMatches(arg) THEN "InvalidPacketLength"
                  ELSE IF Len(arg) < 4 THEN "MalformedPacket"
                  ELSE "UnknownPacketType"
       /\ op = "can_handle" => (exc = "" /\ ret = FALSE)

\* C4 witness: can_handle answers False for a frame of correct length whose
\* type byte is unknown and whose subtype byte is known.
C4_Witness ==
    /\ HandlerCalled("can_handle")
    /\ LengthMatches(arg) /\ Len(arg) >= 4
    /\ TypeMissing(arg) /\ ~SubtypeMissing(arg)
    /\ exc = "" /\ ret = FALSE

\* C5: can_handle answers False exactly when validate_packet raises one of
\* the four taxonomy failures; any other failure of validate_packet (the
\* IndexError of an empty frame) leaves can_handle as the same failure.
C5_OnlyTaxonomySwallowed ==
    HandlerCalled("can_handle")
    => LET v == validate_packet(self, arg) IN
       /\ (exc = "" /\ ret = FALSE) <=> v.exc \in Taxonomy
       /\ (v.exc # "" /\ v.exc \notin Taxonomy) => exc = v.exc
       /\ v.exc = "" => (exc = "" /\ ret = TRUE)

\* C5 witness: can_handle on the empty frame raised IndexError.
C5_Witness ==
    /\ HandlerCalled("can_handle")
    /\ arg = <<>>
    /\ exc = "IndexError"

\* C6 as stated: on every non-empty frame Packet.can_handle returns True
\* and Packet.parse returns a record without raising.
C6_PacketNeverFails ==
    (cls = "Packet" /\ Len(arg) >= 1)
    => /\ op = "can_handle" => (exc = "" /\ ret = TRUE)
       /\ op = "parse" => exc = ""

\* C7: after a successful load the raw attribute is the frame passed in,
\* byte for byte, and the value returned is the record stored in data.
C7_LoadStoresRaw ==
    (op = "load" /\ exc = "")
    => /\ "raw" \in DOMAIN self /\ self.raw = arg
       /\ "data" \in DOMAIN self /\ ret = self.data

\* C7 witness: the second load of a Packet succeeded on a four byte frame.
C7_Witness ==
    /\ op = "load" /\ exc = ""
    /\ clock = 2
    /\ self.raw = arg
    /\ self.data.packet = arg
    /\ Len(arg) = 4

\* C8: validate_packet raises the failure of the first violated rule in
\* the order length, minimum length, type, subtype, and returns True when
\* no rule is violated; so two unknown bytes give UnknownPacketType, and
\* UnknownPacketSubtype needs the length rules and the type rule to pass.
C8_FailFastOrder ==
    (HandlerCalled("validate_packet") /\ Len(arg) >= 1)
    => /\ exc = IF ~LengthMatches(arg) THEN "InvalidPacketLength"
                ELSE IF Len(arg) < 4 THEN "MalformedPacket"
                ELSE IF TypeMissing(arg) THEN "UnknownPacketType"
                ELSE IF SubtypeMissing(arg) THEN "UnknownPacketSubtype"
                ELSE ""
       /\ exc = "UnknownPacketSubtype"
            => (LengthMatches(arg) /\ Len(arg) >= 4 /\ ~TypeMissing(arg))

\* C8 witness: type and subtype bytes both unknown, UnknownPacketType raised.
C8_Witness ==
    /\ HandlerCalled("validate_packet")
    /\ LengthMatches(arg) /\ Len(arg) >= 4
    /\ TypeMissing(arg) /\ SubtypeMissing(arg)
    /\ exc = "UnknownPacketType"

\* C9 as stated: whenever the instance holds both raw and data, data is
\* the parse result of raw.
C9_DataDescribesRaw ==
    ("raw" \in DOMAIN self /\ "data" \in DOMAIN self)
    => LET r == parse(cls, self, self.raw) IN
       r.exc = "" /\ r.val = self.data

\* C10: on a frame a handler's can_handle accepts, parse_header_part
\* returns packet_length = f[0] = len(f) - 1, packet_type = f[1],
\* packet_subtype = f[2], sequence_number = f[3]; a name is the table's
\* label of the code and is absent only under an empty table.  On any frame
\* of four bytes or more a code missing from a table gives an absent name
\* and no failure.
C10_HeaderOfAcceptedFrame ==
    HandlerCalled("parse_header_part")
    => /\ LET h == can_handle(cls, self, arg) IN
          (h.exc = "" /\ h.val = TRUE)
          => /\ exc = ""
             /\ ret.packet_length = At(arg, 0)
             /\ ret.packet_length = Len(arg) - 1
             /\ ret.packet_type = At(arg, 1)
             /\ ret.packet_subtype = At(arg, 2)
             /\ ret.sequence_number = At(arg, 3)
             /\ ret.packet_type_name = None <=> ~Truthy(self.PACKET_TYPES)
             /\ Truthy(self.PACKET_TYPES)
                  => ret.packet_type_name = self.PACKET_TYPES[At(arg, 1)]
             /\ ret.packet_subtype_name = None
                  <=> ~Truthy(self.PACKET_SUBTYPES)
             /\ Truthy(self.PACKET_SUBTYPES)
                  => ret.packet_subtype_name
                        = self.PACKET_SUBTYPES[At(arg, 2)]
       /\ Len(arg) >= 4
          => /\ exc = ""
             /\ At(arg, 1) \notin DOMAIN self.PACKET_TYPES
                  => ret.packet_type_name = None
             /\ At(arg, 2) \notin DOMAIN self.PACKET_SUBTYPES
                  => ret.packet_subtype_name = None

\* C10 witness: the header of an accepted frame whose type and subtype
\* codes differ, both names resolved.
C10_Witness ==
    /\ HandlerCalled("parse_header_part")
    /\ can_handle(cls, self, arg).exc = ""
    /\ can_handle(cls, self, arg).val = TRUE
    /\ exc = ""
    /\ At(arg, 1) # At(arg, 2)
    /\ ret.packet_type_name = "Humidity sensors"
    /\ ret.packet_subtype_name = "THR128"

====
